---- MODULE Spec2Model ----
(***************************************************************************)
(* Model of .github/script/generate_services_table.py: discovery of the    *)
(* per-service __init__.py files, pattern extraction of the declared       *)
(* attributes, the deprecated filter, the rendering of the markdown table  *)
(* and the write of .github/doc/site.md.                                   *)
(*                                                                         *)
(* A Python str is a sequence of one-character strings; the two DRM glyphs *)
(* are one character (one code point) each.                                *)
(***************************************************************************)
EXTENDS Integers, Sequences, FiniteSets, TLC

VARIABLES
    \* the file system
    servicesExists,   \* StreamingCommunity/Api/Service exists
    fs,               \* directory listing of the services path: name -> entry
    outDirExists,     \* .github/doc exists
    outFile,          \* .github/doc/site.md: whether it exists, and its bytes
    \* one invocation of main()
    pc,               \* position in main()
    run,              \* 1 for the first invocation, 2 for the second
    now,              \* the clock read by datetime.now()
    init_files,       \* main: init_files
    idx,              \* main: position of the for loop over init_files
    services,         \* main: services
    deprecated_count, \* main: deprecated_count
    records,          \* the tuples extract_service_info returned, in call order
    stdout,           \* the diagnostics printed
    table_data,       \* generate_markdown_table: table_data
    lines,            \* generate_markdown_table: lines
    writes,           \* number of writes of the output file by this invocation
    prevOut,          \* the output file as the previous invocation left it
    \* one call of extract_service_info on an arbitrary declaration file
    epc, edecl, ereadable, einfo, elines,
    \* one call of generate_markdown_table on an arbitrary list of services
    rpc, rservices, rdata, rlines

vars == <<servicesExists, fs, outDirExists, outFile, pc, run, now, init_files,
          idx, services, deprecated_count, records, stdout, table_data, lines,
          writes, prevOut, epc, edecl, ereadable, einfo, elines,
          rpc, rservices, rdata, rlines>>

pipeVars == <<servicesExists, fs, outDirExists, outFile, pc, run, now,
              init_files, idx, services, deprecated_count, records, stdout,
              table_data, lines, writes, prevOut>>

extractVars == <<epc, edecl, ereadable, einfo, elines>>

renderVars == <<rpc, rservices, rdata, rlines>>

\* Bounds of the model.
MaxEntries == 3
MaxLines == 2

(***************************************************************************)
(* Characters                                                              *)
(***************************************************************************)
Lowers == <<"a","b","c","d","e","f","g","h","i","j","k","l","m",
            "n","o","p","q","r","s","t","u","v","w","x","y","z">>
Uppers == <<"A","B","C","D","E","F","G","H","I","J","K","L","M",
            "N","O","P","Q","R","S","T","U","V","W","X","Y","Z">>
Digits == <<"0","1","2","3","4","5","6","7","8","9">>

Range(f) == {f[i] : i \in DOMAIN f}
IndexOf(f, c) == CHOOSE i \in DOMAIN f : f[i] = c
MinOf(S) == CHOOSE x \in S : \A y \in S : x <= y
MaxOf(S) == CHOOSE x \in S : \A y \in S : x >= y

IsLower(c) == c \in Range(Lowers)
IsUpper(c) == c \in Range(Uppers)
IsCased(c) == IsLower(c) \/ IsUpper(c)

\* \w of the re module
IsWord(c) == IsCased(c) \/ c \in Range(Digits) \/ c = "_"
\* \s of the re module
IsSpace(c) == c \in {" ", "\n", "\t"}
\* ["\']
IsQuote(c) == c \in {"\"", "'"}

\* code point of a character (ASCII)
Ord(c) ==
    CASE IsUpper(c) -> 64 + IndexOf(Uppers, c)
      [] IsLower(c) -> 96 + IndexOf(Lowers, c)
      [] c \in Range(Digits) -> 47 + IndexOf(Digits, c)
      [] c = "_" -> 95
      [] c = " " -> 32
      [] c = "\n" -> 10
      [] c = "\t" -> 9
      [] c = "#" -> 35
      [] c = "'" -> 39
      [] c = "\"" -> 34
      [] c = "-" -> 45
      [] c = "/" -> 47
      [] c = "=" -> 61
      [] OTHER -> 127

LowerChar(c) == IF IsUpper(c) THEN Lowers[IndexOf(Uppers, c)] ELSE c
UpperChar(c) == IF IsLower(c) THEN Uppers[IndexOf(Lowers, c)] ELSE c

\* str.lower()
StrLower(s) == [i \in 1..Len(s) |-> LowerChar(s[i])]

\* str.replace('_', ' ')
ReplaceUnderscore(s) == [i \in 1..Len(s) |-> IF s[i] = "_" THEN " " ELSE s[i]]

\* str.title(): a cased character is upper-cased when the character before it
\* is not cased, lower-cased otherwise
StrTitle(s) ==
    [i \in 1..Len(s) |->
        IF ~IsCased(s[i]) THEN s[i]
        ELSE IF i > 1 /\ IsCased(s[i-1]) THEN LowerChar(s[i])
        ELSE UpperChar(s[i])]

\* str.ljust(width)
Ljust(s, w) == IF Len(s) >= w THEN s ELSE s \o [i \in 1..(w - Len(s)) |-> " "]

\* c * n
Rep(c, n) == [i \in 1..n |-> c]

\* s < t for two str (code point order, a proper prefix is smaller)
StrLess(s, t) ==
    \E k \in 1..(Len(t)) :
        /\ \A j \in 1..(k-1) : j <= Len(s) /\ s[j] = t[j]
        /\ \/ k = Len(s) + 1
           \/ k <= Len(s) /\ Ord(s[k]) < Ord(t[k])

(***************************************************************************)
(* extract_service_info                                                    *)
(***************************************************************************)
NA == <<"N","/","A">>
TrueTok == <<"T","r","u","e">>
FalseTok == <<"F","a","l","s","e">>
AttrStreamType == <<"_","s","t","r","e","a","m","_","t","y","p","e">>
AttrDrm == <<"_","d","r","m">>
AttrDeprecate == <<"_","d","e","p","r","e","c","a","t","e">>
AttrMaxResolution == <<"_","m","a","x","R","e","s","o","l","u","t","i","o","n">>
AttrRegion == <<"_","r","e","g","i","o","n">>

\* the literal lit stands in s at position i
HasLit(s, i, lit) ==
    /\ i + Len(lit) - 1 <= Len(s)
    /\ \A k \in 1..Len(lit) : s[i + k - 1] = lit[k]

\* \s* from position i: the position after the longest run of white space
SkipSpace(s, i) ==
    LET stops == {j \in i..Len(s) : ~IsSpace(s[j])}
    IN IF stops = {} THEN Len(s) + 1 ELSE MinOf(stops)

NoMatch == [ok |-> FALSE, val |-> <<>>]

\* attr\s*=\s*(True|False) matched at position i; val is group(1)
MatchBoolAt(s, i, attr) ==
    IF ~HasLit(s, i, attr) THEN NoMatch
    ELSE LET eq == SkipSpace(s, i + Len(attr))
         IN IF ~HasLit(s, eq, <<"=">>) THEN NoMatch
            ELSE LET v == SkipSpace(s, eq + 1)
                 IN IF HasLit(s, v, TrueTok) THEN [ok |-> TRUE, val |-> TrueTok]
                    ELSE IF HasLit(s, v, FalseTok) THEN [ok |-> TRUE, val |-> FalseTok]
                    ELSE NoMatch

\* the character class of the captured group: \w or [\w\s]
InClass(c, wordOnly) == IsWord(c) \/ (~wordOnly /\ IsSpace(c))

\* attr\s*=\s*["\'](class+)["\'] matched at position i; val is group(1)
MatchQuotedAt(s, i, attr, wordOnly) ==
    IF ~HasLit(s, i, attr) THEN NoMatch
    ELSE LET eq == SkipSpace(s, i + Len(attr))
         IN IF ~HasLit(s, eq, <<"=">>) THEN NoMatch
            ELSE LET q == SkipSpace(s, eq + 1)
                 IN IF ~(q <= Len(s) /\ IsQuote(s[q])) THEN NoMatch
                    ELSE LET stops == {j \in (q+1)..Len(s) : ~InClass(s[j], wordOnly)}
                             e == IF stops = {} THEN Len(s) + 1 ELSE MinOf(stops)
                         IN IF e > q + 1 /\ e <= Len(s) /\ IsQuote(s[e])
                            THEN [ok |-> TRUE, val |-> SubSeq(s, q + 1, e - 1)]
                            ELSE NoMatch

\* re.search: the match at the leftmost position that has one
SearchBool(s, attr) ==
    LET hits == {i \in 1..Len(s) : MatchBoolAt(s, i, attr).ok}
    IN IF hits = {} THEN NoMatch ELSE MatchBoolAt(s, MinOf(hits), attr)

SearchQuoted(s, attr, wordOnly) ==
    LET hits == {i \in 1..Len(s) : MatchQuotedAt(s, i, attr, wordOnly).ok}
    IN IF hits = {} THEN NoMatch ELSE MatchQuotedAt(s, MinOf(hits), attr, wordOnly)

\* mutant: the _stream_type value captured with [\w\s]+
StreamTypeOf_Spaces(content) ==
    LET m == SearchQuoted(content, AttrStreamType, FALSE)
    IN IF m.ok THEN m.val ELSE NA

\* the five pattern searches of extract_service_info
StreamTypeOf(content) ==
    LET m == SearchQuoted(content, AttrStreamType, TRUE)
    IN IF m.ok THEN m.val ELSE NA

DrmOf(content) ==
    LET m == SearchBool(content, AttrDrm)
    IN IF m.ok THEN m.val = TrueTok ELSE FALSE

\* mutant: the _deprecate search run with the _drm pattern
DeprecateOf_DrmPattern(content) ==
    LET m == SearchBool(content, AttrDrm)
    IN IF m.ok THEN m.val = TrueTok ELSE FALSE

DeprecateOf(content) ==
    LET m == SearchBool(content, AttrDeprecate)
    IN IF m.ok THEN m.val = TrueTok ELSE FALSE

MaxResolutionOf(content) ==
    LET m == SearchQuoted(content, AttrMaxResolution, FALSE)
    IN IF m.ok THEN m.val ELSE NA

RegionOf(content) ==
    LET m == SearchQuoted(content, AttrRegion, FALSE)
    IN IF m.ok THEN m.val ELSE NA

\* mutant: a file that cannot be read is skipped as if deprecated
ExtractServiceInfo_SkipOnError(dirName, readable, content) ==
    [service_name |-> dirName,
     stream_type |-> IF readable THEN StreamTypeOf(content) ELSE NA,
     drm |-> IF readable THEN DrmOf(content) ELSE FALSE,
     deprecate |-> IF readable THEN DeprecateOf(content) ELSE TRUE,
     max_resolution |-> IF readable THEN MaxResolutionOf(content) ELSE NA,
     region |-> IF readable THEN RegionOf(content) ELSE NA,
     error |-> ~readable]

\* extract_service_info(init_file): dirName is init_file.parent.name; readable is
\* whether open() and read() succeed; error is whether the except branch printed
ExtractServiceInfo(dirName, readable, content) ==
    IF readable
    THEN [service_name |-> dirName,
          stream_type |-> StreamTypeOf(content),
          drm |-> DrmOf(content),
          deprecate |-> DeprecateOf(content),
          max_resolution |-> MaxResolutionOf(content),
          region |-> RegionOf(content),
          error |-> FALSE]
    ELSE [service_name |-> dirName,
          stream_type |-> NA,
          drm |-> FALSE,
          deprecate |-> FALSE,
          max_resolution |-> NA,
          region |-> NA,
          error |-> TRUE]

(***************************************************************************)
(* sorted()                                                                *)
(***************************************************************************)
\* one step of a stable sort: item x goes after every item whose key is not
\* greater than its own
InsertByKey(sorted, x) ==
    LET later == {j \in 1..Len(sorted) : StrLess(x.key, sorted[j].key)}
        p == IF later = {} THEN Len(sorted) + 1 ELSE MinOf(later)
    IN SubSeq(sorted, 1, p - 1) \o <<x>> \o SubSeq(sorted, p, Len(sorted))

RECURSIVE SortKeyed(_)
\* sorted(items, key=...) on items [key, val]: stable, ascending by key
SortKeyed(items) ==
    IF items = <<>> THEN <<>>
    ELSE InsertByKey(SortKeyed(SubSeq(items, 1, Len(items) - 1)), items[Len(items)])

RECURSIVE ConcatRange(_, _, _)
\* ss[lo] \o ... \o ss[hi]
ConcatRange(ss, lo, hi) ==
    IF lo > hi THEN <<>>
    ELSE IF lo = hi THEN ss[lo]
    ELSE LET mid == (lo + hi) \div 2
         IN ConcatRange(ss, lo, mid) \o ConcatRange(ss, mid + 1, hi)

\* the concatenation of a sequence of sequences
Concat(ss) == ConcatRange(ss, 1, Len(ss))

(***************************************************************************)
(* generate_markdown_table                                                 *)
(***************************************************************************)
CheckMark == "U+2705"
CrossMark == "U+274C"

col1_header == <<"S","i","t","e"," ","N","a","m","e">>
col2_header == <<"S","t","r","e","a","m"," ","T","y","p","e">>
col3_header == <<"D","R","M">>
col4_header == <<"M","a","x"," ","R","e","s","o","l","u","t","i","o","n">>
col5_header == <<"R","e","g","i","o","n">>
Headers == <<col1_header, col2_header, col3_header, col4_header, col5_header>>

TitleLine == <<"#"," ","S","e","r","v","i","c","e","s"," ","O","v","e","r","v","i","e","w">>
RuleLine == <<"-","-","-">>

\* mutant: the sort key without lower()
ServiceSortKey_NoLower(x) == x.service_name

\* the key of sorted(services, key=lambda x: x[0].lower())
ServiceSortKey(x) == StrLower(x.service_name)

\* services = sorted(services, key=lambda x: x[0].lower())
SortServices(svcs) ==
    LET keyed == [i \in 1..Len(svcs) |-> [key |-> ServiceSortKey(svcs[i]), val |-> svcs[i]]]
        s == SortKeyed(keyed)
    IN [i \in 1..Len(s) |-> s[i].val]

\* one element of table_data: the five cells of a service
DisplayRow(x) ==
    <<StrTitle(ReplaceUnderscore(x.service_name)),
      x.stream_type,
      IF x.drm THEN <<CheckMark>> ELSE <<CrossMark>>,
      x.max_resolution,
      x.region>>

\* table_data
TableData(svcs) ==
    LET s == SortServices(svcs) IN [i \in 1..Len(s) |-> DisplayRow(s[i])]

\* mutant: the width taken from the header alone
ColWidth_HeaderOnly(k, data) == Len(Headers[k])

\* max_col<k>: the header's length, raised to the longest cell of column k
ColWidth(k, data) ==
    MaxOf({Len(Headers[k])} \cup {Len(data[i][k]) : i \in 1..Len(data)})

\* "| c1 | c2 | c3 | c4 | c5 |" with every cell left-justified to its width
FormatRow(cells, data) ==
    <<"|">> \o Concat([k \in 1..5 |-> <<" ">> \o Ljust(cells[k], ColWidth(k, data)) \o <<" ", "|">>])

\* "|----|----|----|----|----|" with width + 2 dashes per column
SeparatorRow(data) ==
    <<"|">> \o Concat([k \in 1..5 |-> Rep("-", ColWidth(k, data) + 2) \o <<"|">>])

\* two decimal digits
TwoDigits(n) == <<Digits[(n \div 10) + 1], Digits[(n % 10) + 1]>>

\* datetime.strftime('%Y-%m-%d %H:%M:%S') of a clock that counts the seconds
\* of one minute
Strftime(t) ==
    <<"2","0","2","5","-","1","2","-","2","3"," ","0","0",":","0","0",":">> \o TwoDigits(t)

TimestampLine(t) ==
    <<"*","L","a","s","t"," ","u","p","d","a","t","e","d",":"," ">> \o Strftime(t) \o <<"*">>

\* lines, as generate_markdown_table builds it
TableLines(svcs, t) ==
    LET data == TableData(svcs)
    IN <<TitleLine, <<>>, FormatRow(Headers, data), SeparatorRow(data)>>
       \o [i \in 1..Len(data) |-> FormatRow(data[i], data)]
       \o << <<>>, RuleLine, <<>>, TimestampLine(t), <<>> >>

\* "\n".join(lines)
JoinLines(ls) ==
    Concat([i \in 1..(2 * Len(ls) - 1) |->
                IF i % 2 = 1 THEN ls[(i + 1) \div 2] ELSE <<"\n">>])

\* the UTF-8 bytes of one character
Utf8Char(c) ==
    CASE c = CheckMark -> <<"xE2", "x9C", "x85">>
      [] c = CrossMark -> <<"xE2", "x9D", "x8C">>
      [] OTHER -> <<c>>

\* f.write(markdown_content) on a file opened with encoding='utf-8'
Utf8(text) == Concat([i \in 1..Len(text) |-> Utf8Char(text[i])])

\* number of bytes after the last data row that hold the timestamp line
\* ("*Last updated: " + 19 characters + "*", and the final line break)
TimestampTail == Len(TimestampLine(0)) + 1

(***************************************************************************)
(* Declaration files                                                       *)
(***************************************************************************)
SP == <<" ">>
DQ == <<"\"">>
SQ == <<"'">>

\* one line of a declaration file: pre attr ws1 = ws2 open val close
DeclLine(pre, attr, ws, open, val, close) ==
    [pre |-> pre, attr |-> attr, ws |-> ws, open |-> open, val |-> val, close |-> close]

LineText(l) ==
    l.pre \o l.attr \o l.ws \o <<"=">> \o l.ws \o l.open \o l.val \o l.close \o <<"\n">>

\* the text of a declaration file
DeclText(decl) == Concat([i \in 1..Len(decl) |-> LineText(decl[i])])

BoolLines ==
    UNION {{DeclLine(<<>>, a, SP, <<>>, TrueTok, <<>>),
            DeclLine(<<>>, a, <<>>, <<>>, FalseTok, <<>>),
            DeclLine(<<>>, a, SP, <<>>, <<"t","r","u","e">>, <<>>)} : a \in {AttrDrm, AttrDeprecate}}
    \cup {DeclLine(<<"#">>, AttrDeprecate, SP, <<>>, TrueTok, <<>>)}

QuotedLines ==
    UNION {{DeclLine(<<>>, a, SP, DQ, <<"H","L","S">>, DQ),
            DeclLine(<<>>, a, <<>>, SQ, <<" ","4","K">>, SQ),
            DeclLine(<<>>, a, SP, DQ, <<"a","-","b">>, DQ)}
           : a \in {AttrStreamType, AttrMaxResolution, AttrRegion}}
    \cup {DeclLine(<<>>, AttrRegion, SP, DQ, <<"I","T">>, SQ)}

LineSet == BoolLines \cup QuotedLines

\* the declaration files of at most n lines
DeclsUpTo(n) == UNION {[1..k -> LineSet] : k \in 0..n}

\* the directory of the single declaration file
EName == <<"b","_","c">>

(***************************************************************************)
(* One call of extract_service_info, followed by the filter and renderer   *)
(***************************************************************************)
EInit ==
    /\ epc = "input"
    /\ edecl \in DeclsUpTo(MaxLines)
    /\ ereadable \in BOOLEAN
    /\ einfo = [service_name |-> <<>>]
    /\ elines = <<>>

\* service_name, ... = extract_service_info(init_file)
EExtract ==
    /\ epc = "input"
    /\ einfo' = ExtractServiceInfo(EName, ereadable, DeclText(edecl))
    /\ epc' = "extracted"
    /\ UNCHANGED <<edecl, ereadable, elines>>

\* the 5-tuple main() appends to services
ServiceTuple(info) ==
    [service_name |-> info.service_name, stream_type |-> info.stream_type,
     drm |-> info.drm, max_resolution |-> info.max_resolution, region |-> info.region]

\* if not deprecate: services.append(...); generate_markdown_table(services)
ERender ==
    /\ epc = "extracted"
    /\ elines' = TableLines(IF einfo.deprecate THEN <<>> ELSE <<ServiceTuple(einfo)>>, 0)
    /\ epc' = "rendered"
    /\ UNCHANGED <<edecl, ereadable, einfo>>

(***************************************************************************)
(* The file system main() runs on                                          *)
(***************************************************************************)
Name_Ab == <<"A","b">>
Name_ab == <<"a","b">>
Name_B_c == <<"B","_","c">>
Name_reserved == <<"_","_","p">>
PipeNames == {Name_Ab, Name_ab, Name_B_c, Name_reserved}

\* the declaration files the services of the pipeline may hold
PipeDecls ==
    << \* an active service with every attribute
       <<DeclLine(<<>>, AttrStreamType, SP, DQ, <<"H","L","S">>, DQ),
         DeclLine(<<>>, AttrDrm, SP, <<>>, TrueTok, <<>>),
         DeclLine(<<>>, AttrDeprecate, SP, <<>>, FalseTok, <<>>),
         DeclLine(<<>>, AttrMaxResolution, SP, DQ, <<"4","K">>, DQ),
         DeclLine(<<>>, AttrRegion, SP, SQ, <<"E","U"," ","a","n","d"," ","U","S">>, SQ)>>,
       \* a deprecated service
       <<DeclLine(<<>>, AttrDeprecate, <<>>, <<>>, TrueTok, <<>>),
         DeclLine(<<>>, AttrRegion, SP, DQ, <<"I","T">>, DQ)>>,
       \* a file with no recognized attribute
       <<>> >>

\* their texts
PipeTexts == [c \in DOMAIN PipeDecls |-> DeclText(PipeDecls[c])]

\* a directory entry of the services path: a plain file, or a directory whose
\* __init__.py is missing, unreadable, or holds the text of PipeDecls[cid]
Entries ==
    {[kind |-> "file", init |-> "none", cid |-> 0],
     [kind |-> "dir", init |-> "none", cid |-> 0],
     [kind |-> "dir", init |-> "unreadable", cid |-> 0]}
    \cup {[kind |-> "dir", init |-> "text", cid |-> c] : c \in DOMAIN PipeDecls}

Listings ==
    UNION {[S -> Entries] : S \in {T \in SUBSET PipeNames : Cardinality(T) <= MaxEntries}}

OldBytes == <<"o","l","d">>
NoFile == [exists |-> FALSE, bytes |-> <<>>]

\* the orders in which iterdir() may enumerate a set of entries
Orders(S) ==
    {o \in [1..Cardinality(S) -> S] : \A i, j \in DOMAIN o : i # j => o[i] # o[j]}

(***************************************************************************)
(* find_service_files                                                      *)
(***************************************************************************)
\* service_dir.name.startswith('__')
StartsWithReserved(name) == Len(name) >= 2 /\ name[1] = "_" /\ name[2] = "_"

\* mutant: the test without init_file.exists()
Qualifies_NoInitCheck(name) ==
    fs[name].kind = "dir" /\ ~StartsWithReserved(name)

\* the test of the iterdir loop: a directory, not reserved, holding __init__.py
Qualifies(name) ==
    /\ fs[name].kind = "dir"
    /\ ~StartsWithReserved(name)
    /\ fs[name].init # "none"

RECURSIVE Collect(_)
\* init_files after the loop over the listing in the given order
Collect(order) ==
    IF order = <<>> THEN <<>>
    ELSE (IF Qualifies(order[1]) THEN <<order[1]>> ELSE <<>>) \o Collect(Tail(order))

\* sorted(init_files): every path is services_path/<name>/__init__.py, so the
\* paths compare as the directory names do
SortPaths(files) ==
    LET s == SortKeyed([i \in 1..Len(files) |-> [key |-> files[i], val |-> files[i]]])
    IN [i \in 1..Len(s) |-> s[i].val]

\* mutant: init_files returned in listing order
FindServiceFiles_Unsorted(order) ==
    IF ~servicesExists THEN <<>> ELSE Collect(order)

\* find_service_files(base_path), given the order iterdir() enumerates in
FindServiceFiles(order) ==
    IF ~servicesExists THEN <<>> ELSE SortPaths(Collect(order))

(***************************************************************************)
(* main                                                                    *)
(***************************************************************************)
Init ==
    /\ servicesExists \in BOOLEAN
    /\ fs \in (IF servicesExists THEN Listings ELSE {<<>>})
    /\ outDirExists \in BOOLEAN
    /\ outFile = (IF outDirExists THEN [exists |-> TRUE, bytes |-> OldBytes] ELSE NoFile)
    /\ pc = "start"
    /\ run = 1
    /\ now = 0
    /\ init_files = <<>>
    /\ idx = 0
    /\ services = <<>>
    /\ deprecated_count = 0
    /\ records = <<>>
    /\ stdout = <<>>
    /\ table_data = <<>>
    /\ lines = <<>>
    /\ writes = 0
    /\ prevOut = [dir |-> outDirExists, file |-> outFile]
    /\ epc = "off" /\ edecl = <<>> /\ ereadable = FALSE
    /\ einfo = [service_name |-> <<>>] /\ elines = <<>>
    /\ rpc = "off" /\ rservices = <<>> /\ rdata = <<>> /\ rlines = <<>>

\* mutant: no early return
NoServiceFiles_Never(files) == FALSE

\* if not init_files
NoServiceFiles(files) == files = <<>>

\* main(), lines 156-166: discovery, the count printed, the early return
Discover ==
    /\ pc = "start"
    /\ \E order \in Orders(DOMAIN fs) :
        LET files == FindServiceFiles(order)
            out == <<[msg |-> "base_path", arg |-> <<>>]>>
                   \o (IF servicesExists THEN <<>>
                       ELSE <<[msg |-> "services_path_not_found", arg |-> <<>>]>>)
                   \o <<[msg |-> "found", arg |-> Len(files)]>>
        IN /\ init_files' = files
           /\ IF NoServiceFiles(files)
              THEN /\ stdout' = stdout \o out \o <<[msg |-> "no_service_files", arg |-> <<>>]>>
                   /\ pc' = "done"
                   /\ idx' = idx
              ELSE /\ stdout' = stdout \o out
                   /\ pc' = "loop"
                   /\ idx' = 1
    /\ services' = <<>>
    /\ deprecated_count' = 0
    /\ UNCHANGED <<servicesExists, fs, outDirExists, outFile, run, now, records,
                   table_data, lines, writes, prevOut>>

\* mutant: every service kept
KeepService_All(deprecate) == TRUE

\* if not deprecate
KeepService(deprecate) == ~deprecate

\* mutant: the count raised for every service
NextDeprecatedCount_Always(count, deprecate) == count + 1

\* deprecated_count after one iteration of the loop
NextDeprecatedCount(count, deprecate) == IF deprecate THEN count + 1 ELSE count

\* the text open(init_file).read() returns
FileText(name) ==
    IF fs[name].init = "text" THEN PipeTexts[fs[name].cid] ELSE <<>>

\* main(), lines 171-178: one iteration of the loop over init_files
ExtractOne ==
    /\ pc = "loop"
    /\ idx <= Len(init_files)
    /\ LET name == init_files[idx]
           info == ExtractServiceInfo(name, fs[name].init = "text", FileText(name))
       IN /\ records' = Append(records, info)
          /\ stdout' = IF info.error
                       THEN Append(stdout, [msg |-> "error_reading", arg |-> name])
                       ELSE stdout
          /\ services' = IF KeepService(info.deprecate)
                         THEN Append(services, ServiceTuple(info))
                         ELSE services
          /\ deprecated_count' = NextDeprecatedCount(deprecated_count, info.deprecate)
    /\ idx' = idx + 1
    /\ UNCHANGED <<servicesExists, fs, outDirExists, outFile, pc, run, now,
                   init_files, table_data, lines, writes, prevOut>>

\* main(), lines 180-183: the deprecated count printed, the table generated
Render ==
    /\ pc = "loop"
    /\ idx > Len(init_files)
    /\ stdout' = Append(stdout, [msg |-> "deprecated", arg |-> deprecated_count])
    /\ table_data' = TableData(services)
    /\ lines' = TableLines(services, now)
    /\ pc' = "write"
    /\ UNCHANGED <<servicesExists, fs, outDirExists, outFile, run, now, init_files,
                   idx, services, deprecated_count, records, writes, prevOut>>

\* main(), lines 186-190: mkdir(parents=True, exist_ok=True) and the write
WriteOutput ==
    /\ pc = "write"
    /\ outDirExists' = TRUE
    /\ outFile' = [exists |-> TRUE, bytes |-> Utf8(JoinLines(lines))]
    /\ writes' = writes + 1
    /\ pc' = "done"
    /\ UNCHANGED <<servicesExists, fs, run, now, init_files, idx, services,
                   deprecated_count, records, stdout, table_data, lines, prevOut>>

\* number of invocations of the script the model follows
MaxRuns == 2

\* the script is invoked again on the unchanged input directories, one second
\* later
Rerun ==
    /\ pc = "done"
    /\ run < MaxRuns
    /\ run' = run + 1
    /\ now' = now + 1
    /\ prevOut' = [dir |-> outDirExists, file |-> outFile]
    /\ pc' = "start"
    /\ init_files' = <<>>
    /\ idx' = 0
    /\ services' = <<>>
    /\ deprecated_count' = 0
    /\ records' = <<>>
    /\ stdout' = <<>>
    /\ table_data' = <<>>
    /\ lines' = <<>>
    /\ writes' = 0
    /\ UNCHANGED <<servicesExists, fs, outDirExists, outFile>>

Next ==
    \/ Discover /\ UNCHANGED <<extractVars, renderVars>>
    \/ ExtractOne /\ UNCHANGED <<extractVars, renderVars>>
    \/ Render /\ UNCHANGED <<extractVars, renderVars>>
    \/ WriteOutput /\ UNCHANGED <<extractVars, renderVars>>
    \/ Rerun /\ UNCHANGED <<extractVars, renderVars>>

Spec == Init /\ [][Next]_vars

(***************************************************************************)
(* extract_service_info and generate_markdown_table on their own           *)
(***************************************************************************)
PipeIdle ==
    /\ servicesExists = FALSE /\ fs = <<>> /\ outDirExists = FALSE /\ outFile = NoFile
    /\ pc = "off" /\ run = 0 /\ now = 0 /\ init_files = <<>> /\ idx = 0
    /\ services = <<>> /\ deprecated_count = 0 /\ records = <<>> /\ stdout = <<>>
    /\ table_data = <<>> /\ lines = <<>> /\ writes = 0
    /\ prevOut = [dir |-> FALSE, file |-> NoFile]

ExtractIdle ==
    /\ epc = "off" /\ edecl = <<>> /\ ereadable = FALSE
    /\ einfo = [service_name |-> <<>>] /\ elines = <<>>

RenderIdle == rpc = "off" /\ rservices = <<>> /\ rdata = <<>> /\ rlines = <<>>

InitExtract == EInit /\ PipeIdle /\ RenderIdle

ENext ==
    \/ EExtract /\ UNCHANGED <<pipeVars, renderVars>>
    \/ ERender /\ UNCHANGED <<pipeVars, renderVars>>

SpecExtract == InitExtract /\ [][ENext]_vars

\* the service tuples generate_markdown_table is called on
RenderNames == {Name_Ab, Name_ab, Name_B_c, <<"a","1">>}
RenderFields ==
    {[stream_type |-> NA, drm |-> FALSE, max_resolution |-> NA, region |-> NA],
     [stream_type |-> <<"H","L","S">>, drm |-> TRUE, max_resolution |-> <<"4","K">>,
      region |-> <<"E","U"," ","a","n","d"," ","U","S">>]}
RenderTuples ==
    {[service_name |-> n, stream_type |-> f.stream_type, drm |-> f.drm,
      max_resolution |-> f.max_resolution, region |-> f.region]
     : n \in RenderNames, f \in RenderFields}

MaxRows == 3

RInit ==
    /\ rpc = "input"
    /\ rservices \in UNION {[1..k -> RenderTuples] : k \in 0..MaxRows}
    /\ rdata = <<>>
    /\ rlines = <<>>

\* generate_markdown_table(services)
RGenerate ==
    /\ rpc = "input"
    /\ rdata' = TableData(rservices)
    /\ rlines' = TableLines(rservices, 0)
    /\ rpc' = "rendered"
    /\ UNCHANGED rservices

RNext == RGenerate /\ UNCHANGED <<pipeVars, extractVars>>

InitRender == RInit /\ PipeIdle /\ ExtractIdle

SpecRender == InitRender /\ [][RNext]_vars

(***************************************************************************)
(* What a declaration file declares, read off its lines                    *)
(***************************************************************************)
\* line l assigns True or False to attr
BoolLineOk(l, attr) ==
    l.attr = attr /\ l.open = <<>> /\ l.close = <<>> /\ l.val \in {TrueTok, FalseTok}

\* the boolean the first such line of the file assigns, FALSE when there is none
ExpectedBool(decl, attr) ==
    LET S == {i \in DOMAIN decl : BoolLineOk(decl[i], attr)}
    IN IF S = {} THEN FALSE ELSE decl[MinOf(S)].val = TrueTok

\* line l assigns to attr a quoted, non-empty value of word characters (and,
\* unless wordOnly, white space)
QuotedLineOk(l, attr, wordOnly) ==
    /\ l.attr = attr /\ Len(l.open) = 1 /\ Len(l.close) = 1 /\ l.val # <<>>
    /\ \A i \in DOMAIN l.val : IsWord(l.val[i]) \/ (~wordOnly /\ IsSpace(l.val[i]))

\* the text between the quotes of the first such line, "N/A" when there is none
ExpectedQuoted(decl, attr, wordOnly) ==
    LET S == {i \in DOMAIN decl : QuotedLineOk(decl[i], attr, wordOnly)}
    IN IF S = {} THEN NA ELSE decl[MinOf(S)].val

\* the file without its lines for attr
WithoutAttr(decl, attr) ==
    LET keep == {i \in DOMAIN decl : decl[i].attr # attr}
        nth(k) == CHOOSE i \in keep : Cardinality({j \in keep : j < i}) = k - 1
    IN [k \in 1..Cardinality(keep) |-> decl[nth(k)]]

\* no line of the file is a recognized assignment
NoRecognized(decl) ==
    \A i \in DOMAIN decl :
        /\ ~BoolLineOk(decl[i], AttrDrm) /\ ~BoolLineOk(decl[i], AttrDeprecate)
        /\ ~QuotedLineOk(decl[i], AttrStreamType, TRUE)
        /\ ~QuotedLineOk(decl[i], AttrMaxResolution, FALSE)
        /\ ~QuotedLineOk(decl[i], AttrRegion, FALSE)

(***************************************************************************)
(* The cells of a rendered line, read off its text                         *)
(***************************************************************************)
Bars(line) == {i \in 1..Len(line) : line[i] = "|"}
NthBar(line, k) == CHOOSE i \in Bars(line) : Cardinality({j \in Bars(line) : j < i}) = k - 1
\* the text between the k-th and the next bar
Cell(line, k) == SubSeq(line, NthBar(line, k) + 1, NthBar(line, k + 1) - 1)
\* five cells between six bars, the first and the last bar at the ends
FiveCells(line) ==
    Cardinality(Bars(line)) = 6 /\ line[1] = "|" /\ line[Len(line)] = "|"
\* the cell is one space, the value, spaces up to the width, one space
CellHolds(cell, value) ==
    /\ Len(cell) >= Len(value) + 2
    /\ cell[1] = " "
    /\ SubSeq(cell, 2, Len(value) + 1) = value
    /\ \A j \in (Len(value) + 2)..Len(cell) : cell[j] = " "

(***************************************************************************)
(* C8, C9: extract_service_info                                            *)
(***************************************************************************)
Extracted == epc \in {"extracted", "rendered"}

\* C8: on a readable file each of drm and deprecate is the truth value of the
\* first True/False assignment to its own attribute, false when the file has
\* none; and neither changes when the lines of the other attribute are removed
C8_BooleansExtracted ==
    (Extracted /\ ereadable) =>
        /\ einfo.drm = ExpectedBool(edecl, AttrDrm)
        /\ einfo.deprecate = ExpectedBool(edecl, AttrDeprecate)
        /\ einfo.drm = DrmOf(DeclText(WithoutAttr(edecl, AttrDeprecate)))
        /\ einfo.deprecate = DeprecateOf(DeclText(WithoutAttr(edecl, AttrDrm)))

\* a file assigning _drm True and _deprecate False has been extracted
C8_Witness ==
    /\ Extracted /\ ereadable /\ Len(edecl) = 2
    /\ edecl[1].attr = AttrDrm /\ edecl[1].val = TrueTok
    /\ edecl[2].attr = AttrDeprecate /\ edecl[2].val = FalseTok
    /\ einfo.drm /\ ~einfo.deprecate

\* C9: on a readable file each of stream_type, max_resolution and region is the
\* text between the quotes of the first matching assignment, untrimmed, and
\* "N/A" when there is none; a file with no recognized attribute renders as one
\* row: the label of the directory, N/A, the DRM-absent glyph, N/A, N/A
C9_StringsExtracted ==
    /\ (Extracted /\ ereadable) =>
        /\ einfo.stream_type = ExpectedQuoted(edecl, AttrStreamType, TRUE)
        /\ einfo.max_resolution = ExpectedQuoted(edecl, AttrMaxResolution, FALSE)
        /\ einfo.region = ExpectedQuoted(edecl, AttrRegion, FALSE)
    /\ (epc = "rendered" /\ ereadable /\ NoRecognized(edecl)) =>
        /\ Len(elines) = 10
        /\ FiveCells(elines[5])
        /\ CellHolds(Cell(elines[5], 1), <<"B"," ","C">>)
        /\ CellHolds(Cell(elines[5], 2), NA)
        /\ CellHolds(Cell(elines[5], 3), <<CrossMark>>)
        /\ CellHolds(Cell(elines[5], 4), NA)
        /\ CellHolds(Cell(elines[5], 5), NA)

\* a region captured with its leading space, beside a stream type whose value
\* the pattern does not match
C9_Witness ==
    /\ epc = "rendered" /\ ereadable /\ Len(edecl) = 2
    /\ edecl[1].attr = AttrStreamType /\ edecl[1].val = <<" ","4","K">>
    /\ einfo.stream_type = NA
    /\ einfo.region = <<" ","4","K">>

(***************************************************************************)
(* C1 - C5, C10: main()                                                    *)
(***************************************************************************)
\* the directory entries that discovery is to find: immediate child directories
\* whose name does not start with "__" and that contain an __init__.py
Qualifying ==
    {n \in DOMAIN fs :
        /\ fs[n].kind = "dir"
        /\ ~(Len(n) >= 2 /\ SubSeq(n, 1, 2) = <<"_","_">>)
        /\ fs[n].init \in {"unreadable", "text"}}

\* the record of a declaration file whose read fails
DefaultRecord(n) ==
    [service_name |-> n, stream_type |-> NA, drm |-> FALSE, deprecate |-> FALSE,
     max_resolution |-> NA, region |-> NA, error |-> TRUE]

\* the record of a readable declaration file, read off its lines
DeclaredRecord(n) ==
    LET decl == PipeDecls[fs[n].cid]
    IN [service_name |-> n,
        stream_type |-> ExpectedQuoted(decl, AttrStreamType, TRUE),
        drm |-> ExpectedBool(decl, AttrDrm),
        deprecate |-> ExpectedBool(decl, AttrDeprecate),
        max_resolution |-> ExpectedQuoted(decl, AttrMaxResolution, FALSE),
        region |-> ExpectedQuoted(decl, AttrRegion, FALSE),
        error |-> FALSE]

Deprecated == {i \in DOMAIN records : records[i].deprecate}
Kept == {i \in DOMAIN records : ~records[i].deprecate}
Rendered == pc \in {"write", "done"} /\ init_files # <<>>

\* the lines of the written bytes that start with a bar: header, separator, rows
BarLines(bytes) ==
    {i \in DOMAIN bytes : bytes[i] = "|" /\ (i = 1 \/ bytes[i - 1] = "\n")}

\* C1: once the table is rendered, no service whose record is deprecated is
\* among the rendered ones, every record that is not has its row, there are no
\* other rows, and the count printed is the number of deprecated records
C1_DeprecatedFiltered ==
    Rendered =>
        /\ \A i \in Deprecated : \A k \in DOMAIN services :
               services[k].service_name # records[i].service_name
        /\ \A i \in Kept : \E k \in DOMAIN table_data :
               table_data[k] = DisplayRow(ServiceTuple(records[i]))
        /\ \A k \in DOMAIN table_data : \E i \in Kept :
               table_data[k] = DisplayRow(ServiceTuple(records[i]))
        /\ Len(table_data) = Cardinality(Kept)
        /\ Len(lines) = 9 + Cardinality(Kept)
        /\ stdout[Len(stdout)] = [msg |-> "deprecated", arg |-> Cardinality(Deprecated)]

\* a run over one deprecated and two kept services has written its table
C1_Witness ==
    /\ pc = "done" /\ writes = 1
    /\ Cardinality(Deprecated) = 1 /\ Len(table_data) = 2

\* the diagnostics of a run that discovers nothing
NothingFoundOutput ==
    <<[msg |-> "base_path", arg |-> <<>>]>>
    \o (IF servicesExists THEN <<>> ELSE <<[msg |-> "services_path_not_found", arg |-> <<>>]>>)
    \o <<[msg |-> "found", arg |-> 0], [msg |-> "no_service_files", arg |-> <<>>]>>

\* C2: when no directory entry qualifies (the services directory is missing, or
\* holds no qualifying child), main() has returned right after discovery: zero
\* found is reported, nothing is extracted or rendered, the output directory
\* and the output file are as they were before the run
C2_NothingFoundNothingWritten ==
    (pc # "start" /\ Qualifying = {}) =>
        /\ pc = "done"
        /\ stdout = NothingFoundOutput
        /\ records = <<>> /\ lines = <<>> /\ writes = 0
        /\ outDirExists = prevOut.dir
        /\ outFile = prevOut.file

\* the run on a missing services directory has ended, no output directory made
C2_Witness == pc = "done" /\ ~servicesExists /\ ~outDirExists /\ ~outFile.exists

\* C3: the record of a file whose read fails has the directory's name and the
\* default of every field, and the error is printed with its path; the records
\* of the readable files are what their files declare; the run goes on to
\* extract every file and writes the output file
C3_ReadErrorDefaults ==
    /\ \A i \in DOMAIN records :
        LET n == init_files[i]
        IN /\ fs[n].init = "unreadable" =>
                /\ records[i] = DefaultRecord(n)
                /\ \E j \in DOMAIN stdout : stdout[j] = [msg |-> "error_reading", arg |-> n]
           /\ fs[n].init = "text" => records[i] = DeclaredRecord(n)
    /\ (pc = "done" /\ init_files # <<>>) =>
        /\ Len(records) = Len(init_files)
        /\ writes = 1 /\ outFile.exists
        /\ \A i \in DOMAIN records : fs[init_files[i]].init = "unreadable" =>
               \E k \in DOMAIN table_data :
                   table_data[k] = DisplayRow(ServiceTuple(DefaultRecord(init_files[i])))

\* a run over an unreadable file and a fully declared one has written the table
C3_Witness ==
    /\ pc = "done" /\ writes = 1
    /\ \E i, j \in DOMAIN records :
        /\ fs[init_files[i]].init = "unreadable"
        /\ fs[init_files[j]].init = "text" /\ fs[init_files[j]].cid = 1
        /\ records[j].drm /\ records[j].stream_type = <<"H","L","S">>

\* C4: discovery returns each qualifying directory once and nothing else, and
\* the loop extracts exactly one record per discovered file, in order
C4_OneRecordPerDirectory ==
    /\ pc # "start" =>
        /\ Range(init_files) = Qualifying
        /\ Len(init_files) = Cardinality(Qualifying)
    /\ pc = "loop" => Len(records) = idx - 1
    /\ \A i \in DOMAIN records : records[i].service_name = init_files[i]
    /\ pc \in {"write", "done"} =>
        /\ Len(records) = Cardinality(Qualifying)
        /\ {records[i].service_name : i \in DOMAIN records} = Qualifying

\* a listing of a qualifying directory, a directory without __init__.py and a
\* reserved directory that holds one has been processed
C4_Witness ==
    /\ pc = "done" /\ Len(records) = 1 /\ Cardinality(DOMAIN fs) = 3
    /\ Name_reserved \in DOMAIN fs /\ fs[Name_reserved].init = "text"
    /\ \E n \in DOMAIN fs : fs[n].kind = "dir" /\ fs[n].init = "none"

\* the bytes before the timestamp line
BeforeTimestamp(bytes) == SubSeq(bytes, 1, Len(bytes) - TimestampTail)

\* C5: the second run on the unchanged directories writes the bytes the first
\* run wrote, up to the timestamp line, whatever order the directory listing
\* enumerates in
C5_SecondRunSameOutput ==
    (run >= 2 /\ pc = "done" /\ writes = 1) =>
        /\ prevOut.file.exists
        /\ BeforeTimestamp(outFile.bytes) = BeforeTimestamp(prevOut.file.bytes)

\* the second run over two services whose names differ in case only, with
\* different declarations, has written; the timestamp differs
C5_Witness ==
    /\ run = 2 /\ pc = "done" /\ writes = 1
    /\ {Name_Ab, Name_ab} \subseteq Range(init_files)
    /\ fs[Name_Ab].cid = 3 /\ fs[Name_ab].cid = 1
    /\ outFile.bytes # prevOut.file.bytes

\* C10: a run writes at most once, and only when the loop has extracted every
\* discovered file; a run that discovered a file ends with the output file
\* written, holding the rendered lines, with as many data rows as discovered
\* files less the printed deprecated count (header and separator alone when
\* every service is deprecated)
C10_WrittenOnceAfterLoop ==
    /\ writes <= 1
    /\ writes = 1 => pc = "done" /\ init_files # <<>> /\ Len(records) = Len(init_files)
    /\ (pc = "done" /\ init_files # <<>>) =>
        /\ writes = 1
        /\ outDirExists
        /\ outFile = [exists |-> TRUE, bytes |-> Utf8(JoinLines(lines))]
        /\ Cardinality(BarLines(outFile.bytes)) - 2
               = Len(init_files) - stdout[Len(stdout)].arg
        /\ Cardinality(BarLines(outFile.bytes)) >= 2

\* a run in which every discovered service is deprecated has overwritten the
\* existing output file with a table of no data rows
C10_Witness ==
    /\ pc = "done" /\ Len(init_files) = 2 /\ services = <<>>
    /\ prevOut.file.exists /\ writes = 1
    /\ Cardinality(BarLines(outFile.bytes)) = 2

(***************************************************************************)
(* C6, C7: generate_markdown_table                                         *)
(***************************************************************************)
\* C6: the rows are the services in some rearrangement (none lost, none
\* duplicated) in which the lower-cased names never decrease, and the data
\* lines hold the rows in that order
C6_RowsSortedCaseInsensitive ==
    rpc = "rendered" =>
        /\ Len(rdata) = Len(rservices)
        /\ \E p \in Orders(DOMAIN rservices) :
            /\ \A k \in DOMAIN rdata : rdata[k] = DisplayRow(rservices[p[k]])
            /\ \A k \in 1..(Len(rdata) - 1) :
                ~StrLess(StrLower(rservices[p[k + 1]].service_name),
                         StrLower(rservices[p[k]].service_name))
        /\ Len(rlines) = 9 + Len(rdata)
        /\ \A k \in DOMAIN rdata : \A c \in 1..5 :
            CellHolds(Cell(rlines[4 + k], c), rdata[k][c])

\* B_c, ab, Ab given in that order have been rendered as Ab, Ab, B C
C6_Witness ==
    /\ rpc = "rendered" /\ Len(rservices) = 3
    /\ rservices[1].service_name = Name_B_c
    /\ rservices[2].service_name = Name_ab
    /\ rservices[3].service_name = Name_Ab
    /\ rservices[2].drm /\ ~rservices[3].drm
    /\ rdata[3][1] = <<"B"," ","C">>
    /\ rdata[1][3] = <<CheckMark>>

\* the width the column is to have: the longest of its header and its values
WidthOf(c) == MaxOf({Len(Headers[c])} \cup {Len(rdata[k][c]) : k \in DOMAIN rdata})

\* C7: in the header line and in every data line each cell is its text,
\* untruncated and left-justified, padded to the width of its column, which is
\* the longest of the column's header and values; the separator has width + 2
\* dashes per column; header, separator and data lines are equally long
C7_ColumnsSized ==
    rpc = "rendered" =>
        LET tableLines == {3, 4} \cup {4 + k : k \in DOMAIN rdata}
        IN /\ \A i \in tableLines : FiveCells(rlines[i]) /\ Len(rlines[i]) = Len(rlines[3])
           /\ \A c \in 1..5 :
               /\ Len(Cell(rlines[3], c)) = WidthOf(c) + 2
               /\ CellHolds(Cell(rlines[3], c), Headers[c])
               /\ Cell(rlines[4], c) = Rep("-", WidthOf(c) + 2)
               /\ \A k \in DOMAIN rdata :
                   /\ Len(Cell(rlines[4 + k], c)) = WidthOf(c) + 2
                   /\ CellHolds(Cell(rlines[4 + k], c), rdata[k][c])

\* a table with a region longer than its header beside a shorter one
C7_Witness ==
    /\ rpc = "rendered"
    /\ \E i, j \in DOMAIN rdata :
        /\ Len(rdata[i][5]) > Len(col5_header)
        /\ Len(rdata[j][5]) < Len(col5_header)
    /\ Len(rlines[3]) > 16 + Len(col1_header) + Len(col2_header) + Len(col3_header)
                          + Len(col4_header) + Len(col5_header)

====
